---- MODULE Spec2Model ----
(***************************************************************************)
(* Rate My Captain (src/app.py): the suggestion consensus engine, the      *)
(* assignment ledger, review submission and the read-time rating           *)
(* aggregator, as a state machine over the relational store.               *)
(*                                                                         *)
(* The store is SQLite (create_engine("sqlite:///app.db")), one connection *)
(* per Session.  Its driver opens a transaction at the first INSERT or     *)
(* UPDATE of a session, never at a SELECT, and the first write takes the   *)
(* database's single write lock, held until commit or rollback.  Rows a    *)
(* session has flushed are visible to that session alone until it commits. *)
(* So a handler is modelled as the steps its SQL statements cut it into:   *)
(* the SELECTs made before its first flush (no lock), the flush (lock      *)
(* taken, or the request waits), the statements up to the commit (on the   *)
(* session's own view, tx), and the commit (the view becomes the store).   *)
(*                                                                         *)
(* Time is counted in hours.  A request is served within one clock value.  *)
(* A request that is answered before it writes (a redirect, a 404, a       *)
(* validation or duplicate message) changes nothing: it is a stuttering    *)
(* step, and its answer is given by the handler's Outcome operator.        *)
(***************************************************************************)
EXTENDS Integers, Sequences, FiniteSets, TLC

\* ---------------------------------------------------------------- bounds
NumWorkers == 2     \* request threads serving suggest_update / review_new POSTs
NumTokens == 2      \* distinct rev_token values in circulation
MaxSug == 2         \* EditSuggestion rows ever inserted
MaxReviews == 3     \* Review rows ever inserted
MaxTicks == 1       \* clock advances

\* ------------------------------------------------------- program constants
MIN_DISPLAY_REVIEWS == 3
SUGGESTION_WINDOW_DAYS == 14
CONSENSUS_THRESHOLD == 2
SUGGESTION_EXPIRE_DAYS == 60

ALLOWED_BASES ==
  {"ORD","IAH","DEN","EWR","IAD","DCA","SFO","LAX","CLE","LGA","GUM","LAS","MCO"}
ALLOWED_FLEETS == {"737","757","767","777","787","A319","A320","A321"}

NULL == 0 - 1                       \* a NULL DateTime column
Days(n) == n * 24                   \* timedelta(days=n), in hours
\* the clock advances by just over a consensus window at a time
TickStep == Days(SUGGESTION_WINDOW_DAYS) + 1

Workers == 1..NumWorkers
Tokens == 1..NumTokens
NoCookie == 0                       \* request.cookies.get(REV_COOKIE) is None
NoWorker == 0

\* ------------------------------------------------------------ form inputs
\* suggest_update's form: <<base, fleet>>
SuggestForms ==
  { <<"iah", "787 ">>, <<" DEN", "787 ">>, <<"XXX", "787 ">>, <<"iah", "">> }
\* captain_new's form: <<name, base, fleet>>
CaptainForms ==
  { <<" pat doe", "ord", "737">>, <<"john  smith", "ord", "737">>,
    <<"", "ord", "737">>, <<"pat doe", "XXX", "737">>, <<"pat doe", "ord", "">> }
CidInputs == {1, 9}                 \* a seeded captain, and no captain's id

\* (request.form.get(k) or "").strip().upper(), on the inputs above
StripUpper(s) ==
  CASE s = "iah" -> "IAH"
    [] s = "ord" -> "ORD"
    [] s = " DEN" -> "DEN"
    [] s = "787 " -> "787"
    [] OTHER -> s

\* (request.form.get("name") or "").strip()
Strip(s) ==
  CASE s = " pat doe" -> "pat doe"
    [] OTHER -> s

\* " ".join(p.capitalize() for p in name.split())
NormName(s) ==
  CASE s = "pat doe" -> "Pat Doe"
    [] s = "john  smith" -> "John Smith"
    [] OTHER -> s

\* func.lower(Captain.name) / norm_name.lower()
Lower(s) ==
  CASE s = "Pat Doe" -> "pat doe"
    [] s = "John Smith" -> "john smith"
    [] s = "Alex Chen" -> "alex chen"
    [] s = "Maria Lopez" -> "maria lopez"
    [] OTHER -> s

\* ------------------------------------------------------------------ state
VARIABLES
  now,          \* datetime.utcnow(), in hours
  authed,       \* whether a session cookie carrying authed = True was issued
  captains,     \* captains table: id (the index) -> row
  assignments,  \* captain_assignments table
  suggestions,  \* edit_suggestions table
  reviews,      \* reviews table
  lock,         \* the worker holding SQLite's write lock, or NoWorker
  tx,           \* the lock holder's uncommitted view of the tables it wrote
  pc,           \* each worker's position in its handler
  req,          \* each worker's request in progress
  page          \* the response last rendered by a read route

vars == <<now, authed, captains, assignments, suggestions, reviews,
          lock, tx, pc, req, page>>
dbvars == <<captains, assignments, suggestions, reviews>>

\* ------------------------------------------------------------------- rows
Captain(name, base, fleet, t) ==
  [name |-> name, base |-> base, fleet |-> fleet, updated_at |-> t]

CaptainAssignment(cid, base, fleet, t) ==
  [captain_id |-> cid, base |-> base, fleet |-> fleet,
   start_date |-> t, end_date |-> NULL]

EditSuggestion(cid, new_base, new_fleet, creator_hash, t) ==
  [captain_id |-> cid, new_base |-> new_base, new_fleet |-> new_fleet,
   status |-> "pending", created_at |-> t, resolved_at |-> NULL,
   creator_hash |-> creator_hash]

NoTx == [captains |-> <<>>, assignments |-> <<>>, suggestions |-> <<>>]
\* no read route has answered yet
NoPage == [route |-> "none", sess |-> FALSE, arg |-> <<>>, response |-> <<>>]

NoReq == [route |-> "none", cid |-> 0, new_base |-> "", new_fleet |-> "",
          hash |-> <<>>, payload |-> <<>>]

\* ------------------------------------------------------ reviewer identity
\* get_or_set_reviewer_token: the cookie's token, or a fresh uuid4 to set
get_or_set_reviewer_token(cookie, uuid) ==
  IF cookie # NoCookie THEN <<cookie, NoCookie>> ELSE <<uuid, uuid>>


\* HMAC-SHA256 of the token under the pepper, truncated: a keyed one-way
\* value, equal for equal tokens and (128 bits kept) distinct otherwise
reviewer_hash_from_token(token) == <<"hmac", token>>

\* --------------------------------------------------------------- bootstrap
bootstrap_captains ==
  << Captain("John Smith", "ORD", "737", 0),
     Captain("Alex Chen", "IAH", "787", 0),
     Captain("Maria Lopez", "DEN", "A320", 0) >>

bootstrap_assignments ==
  [i \in 1..3 |-> CaptainAssignment(i, bootstrap_captains[i].base,
                                    bootstrap_captains[i].fleet, 0)]

Init ==
  /\ now = 0
  /\ authed = FALSE
  /\ captains = bootstrap_captains
  /\ assignments = bootstrap_assignments
  /\ suggestions = <<>>
  /\ reviews = <<>>
  /\ lock = NoWorker
  /\ tx = NoTx
  /\ pc = [w \in Workers |-> "idle"]
  /\ req = [w \in Workers |-> NoReq]
  /\ page = NoPage

\* ------------------------------------------------------------------ clock
Tick ==
  /\ \A w \in Workers : pc[w] = "idle"
  /\ now + TickStep <= MaxTicks * TickStep
  /\ now' = now + TickStep
  /\ UNCHANGED <<page, authed, captains, assignments, suggestions, reviews,
                 lock, tx, pc, req>>

\* ------------------------------------------------------------------ login
InviteCodes == {"fly-safe", "guess"}
INVITE_CODE == "fly-safe"

\* session.get("authed") of a request: a request may carry a session cookie
\* with the flag only once login has issued one
SessionFlags == IF authed THEN {TRUE, FALSE} ELSE {FALSE}

\* the forms tried with a session flag: without the flag every form is
\* answered alike (the redirect to login), and one stands for all
FormsFor(sess, forms) ==
  IF sess THEN forms ELSE {CHOOSE f \in forms : TRUE}

login(code) ==
  /\ authed' = IF code = INVITE_CODE THEN TRUE ELSE authed
  /\ UNCHANGED <<page, now, captains, assignments, suggestions, reviews,
                 lock, tx, pc, req>>

\* ---------------------------------------------------------------- cookies
\* the tokens whose hash the store or a request in progress holds
KnownTokens ==
  {t \in Tokens :
     \/ \E i \in DOMAIN suggestions :
          suggestions[i].creator_hash = reviewer_hash_from_token(t)
     \/ \E i \in DOMAIN reviews :
          reviews[i].reviewer_hash = reviewer_hash_from_token(t)
     \/ \E w \in Workers : req[w].hash = reviewer_hash_from_token(t)}

\* a request carries a token minted before, or none
Cookies == KnownTokens \cup {NoCookie}

\* uuid.uuid4(), drawn when the request carries no token: a token never
\* seen before (tokens are numbered in the order they are first used)
Uuids(cookie) ==
  IF cookie # NoCookie THEN {NoCookie}
  ELSE {t \in Tokens \ KnownTokens : \A u \in Tokens \ KnownTokens : t <= u}

\* ------------------------------------------------------------ captain_new
\* the existing-captain SELECT of captain_new
ExistingCaptain(norm_name, base, fleet) ==
  \E i \in DOMAIN captains :
    /\ Lower(captains[i].name) = Lower(norm_name)
    /\ captains[i].base = base
    /\ captains[i].fleet = fleet

\* what a captain_new POST answers for a request carrying session flag sess
CaptainNewOutcome(sess, name, base, fleet) ==
  IF ~sess THEN "login"
  ELSE IF name = "" \/ base \notin ALLOWED_BASES \/ fleet \notin ALLOWED_FLEETS
       THEN "invalid"
  ELSE IF ExistingCaptain(NormName(name), base, fleet) THEN "exists"
  ELSE "added"

captain_new(sess, rawname, rawb, rawf) ==
  LET name == Strip(rawname)
      base == StripUpper(rawb)
      fleet == StripUpper(rawf)
      norm_name == NormName(name)
  IN
  IF CaptainNewOutcome(sess, name, base, fleet) # "added"
  THEN UNCHANGED vars
  ELSE
    /\ lock = NoWorker
    /\ captains' = Append(captains, Captain(norm_name, base, fleet, now))
    /\ assignments' = Append(assignments,
                        CaptainAssignment(Len(captains) + 1, base, fleet, now))
    /\ UNCHANGED <<page, now, authed, suggestions, reviews, lock, tx, pc, req>>

\* --------------------------------------------------------- suggest_update
\* the requests past the duplicate-pending guard, each with a row to insert
Inserting ==
  {w \in Workers :
     pc[w] \in {"flush", "commit_applied", "commit_pending"}}

\* the thread a new request is served by: the first one free (0: none is)
FreeWorker ==
  IF \A w \in Workers : pc[w] # "idle" THEN NoWorker
  ELSE CHOOSE w \in Workers :
         pc[w] = "idle" /\ \A v \in Workers : pc[v] = "idle" => w <= v

\* mutant of ExistingMine: only a pending suggestion still in the consensus
\* window counts
ExistingMineInWindow(sugs, cid, creator_hash) ==
  \E i \in DOMAIN sugs :
    /\ sugs[i].captain_id = cid
    /\ sugs[i].creator_hash = creator_hash
    /\ sugs[i].status = "pending"
    /\ sugs[i].created_at >= now - Days(SUGGESTION_WINDOW_DAYS)

\* existing_mine: a pending suggestion of this creator for this captain
ExistingMine(sugs, cid, creator_hash) ==
  \E i \in DOMAIN sugs :
    /\ sugs[i].captain_id = cid
    /\ sugs[i].creator_hash = creator_hash
    /\ sugs[i].status = "pending"

\* what a suggest_update POST answers before it writes: the session check,
\* the captain lookup, the form validation, the duplicate-pending guard
SuggestOutcome(sess, cid, creator_hash, new_base, new_fleet) ==
  IF ~sess THEN "login"
  ELSE IF cid \notin DOMAIN captains THEN "notfound"
  ELSE IF new_base \notin ALLOWED_BASES \/ new_fleet \notin ALLOWED_FLEETS
       THEN "invalid"
  ELSE IF ExistingMine(suggestions, cid, creator_hash) THEN "duplicate"
  ELSE "accepted"

\* suggest_update, POST, up to the existing_mine check.  Every answer but
\* "accepted" ends the request with the store untouched.
SuggestBegin(w, sess, cid, cookie, uuid, rawb, rawf) ==
  LET tok == get_or_set_reviewer_token(cookie, uuid)
      creator_hash == reviewer_hash_from_token(tok[1])
      new_base == StripUpper(rawb)
      new_fleet == StripUpper(rawf)
  IN
  /\ w \in Workers
  /\ w = FreeWorker
  /\ IF SuggestOutcome(sess, cid, creator_hash, new_base, new_fleet) # "accepted"
     THEN UNCHANGED <<pc, req>>
     ELSE /\ Len(suggestions) + Cardinality(Inserting) < MaxSug
          /\ pc' = [pc EXCEPT ![w] = "flush"]
          /\ req' = [req EXCEPT ![w] =
                       [route |-> "suggest", cid |-> cid, new_base |-> new_base,
                        new_fleet |-> new_fleet, hash |-> creator_hash,
                        payload |-> <<>>]]
  /\ UNCHANGED <<page, now, authed, captains, assignments, suggestions, reviews,
                 lock, tx>>

\* mutant of Matches: the window is not applied
MatchesNoWindow(sugs, cid, new_base, new_fleet, since) ==
  {i \in DOMAIN sugs :
     /\ sugs[i].captain_id = cid
     /\ sugs[i].new_base = new_base
     /\ sugs[i].new_fleet = new_fleet
     /\ sugs[i].status = "pending"}

\* mutant of Matches: the query runs on the committed store, where the row
\* this session has just flushed is not seen
MatchesCommittedOnly(sugs, cid, new_base, new_fleet, since) ==
  {i \in DOMAIN suggestions :
     /\ suggestions[i].captain_id = cid
     /\ suggestions[i].new_base = new_base
     /\ suggestions[i].new_fleet = new_fleet
     /\ suggestions[i].status = "pending"
     /\ suggestions[i].created_at >= since}

\* the matches SELECT: pending, same captain, same (base, fleet), in window
Matches(sugs, cid, new_base, new_fleet, since) ==
  {i \in DOMAIN sugs :
     /\ sugs[i].captain_id = cid
     /\ sugs[i].new_base = new_base
     /\ sugs[i].new_fleet = new_fleet
     /\ sugs[i].status = "pending"
     /\ sugs[i].created_at >= since}

Creators(sugs, matches) == {sugs[i].creator_hash : i \in matches}

\* the rows with a NULL end_date for this captain
OpenAssignments(asgs, cid) ==
  {i \in DOMAIN asgs : asgs[i].captain_id = cid /\ asgs[i].end_date = NULL}

\* mutant of Approve: only the newest match is approved
ApproveNewestOnly(sugs, matches, t) ==
  [i \in DOMAIN sugs |->
     IF i \in matches /\ \A j \in matches : j <= i
     THEN [sugs[i] EXCEPT !.status = "approved", !.resolved_at = t]
     ELSE sugs[i]]

\* for m in matches: m.status = "approved"; m.resolved_at = utcnow()
Approve(sugs, matches, t) ==
  [i \in DOMAIN sugs |->
     IF i \in matches
     THEN [sugs[i] EXCEPT !.status = "approved", !.resolved_at = t]
     ELSE sugs[i]]

\* mutant of CloseCurrent: the open assignment is left open
CloseCurrentSkipped(asgs, current, t) == asgs

\* if current: current.end_date = utcnow()   (current = 0: no open row)
CloseCurrent(asgs, current, t) ==
  IF current = 0 THEN asgs ELSE [asgs EXCEPT ![current].end_date = t]

\* mutant of ApplyConsensus: the new assignment keeps the captain's old base
\* and fleet
ApplyConsensusOldValues(view, cid, new_base, new_fleet, matches, current, t) ==
  [captains |->
     [view.captains EXCEPT ![cid].base = new_base,
                           ![cid].fleet = new_fleet,
                           ![cid].updated_at = t],
   assignments |->
     Append(IF current = 0 THEN view.assignments
            ELSE [view.assignments EXCEPT ![current].end_date = t],
            [captain_id |-> cid, base |-> view.captains[cid].base,
             fleet |-> view.captains[cid].fleet,
             start_date |-> t, end_date |-> NULL]),
   suggestions |->
     [i \in DOMAIN view.suggestions |->
        IF i \in matches
        THEN [view.suggestions[i] EXCEPT !.status = "approved", !.resolved_at = t]
        ELSE view.suggestions[i]]]

\* mutant of ApplyConsensus: the open assignment is rewritten in place
\* instead of being closed and followed by a new one
ApplyConsensusInPlace(view, cid, new_base, new_fleet, matches, current, t) ==
  [captains |->
     [view.captains EXCEPT ![cid].base = new_base,
                           ![cid].fleet = new_fleet,
                           ![cid].updated_at = t],
   assignments |->
     IF current = 0
     THEN Append(view.assignments,
                 CaptainAssignment(cid, new_base, new_fleet, t))
     ELSE [view.assignments EXCEPT ![current].base = new_base,
                                   ![current].fleet = new_fleet,
                                   ![current].start_date = t],
   suggestions |-> Approve(view.suggestions, matches, t)]

\* Approve all matching pending; update captain + history
ApplyConsensus(view, cid, new_base, new_fleet, matches, current, t) ==
  [captains |->
     [view.captains EXCEPT ![cid].base = new_base,
                           ![cid].fleet = new_fleet,
                           ![cid].updated_at = t],
   assignments |->
     Append(CloseCurrent(view.assignments, current, t),
            CaptainAssignment(cid, new_base, new_fleet, t)),
   suggestions |-> Approve(view.suggestions, matches, t)]

\* s.add(sug); s.flush(): the INSERT opens the transaction and takes the
\* write lock (created_at defaults to utcnow()); then, on the session's own
\* view, the consensus check and, on consensus, its effects, up to the commit
SuggestWrite(w) ==
  LET cid == req[w].cid
      new_base == req[w].new_base
      new_fleet == req[w].new_fleet
      flushed == [captains |-> captains,
                  assignments |-> assignments,
                  suggestions |-> Append(suggestions,
                      EditSuggestion(cid, new_base, new_fleet, req[w].hash, now))]
      since == now - Days(SUGGESTION_WINDOW_DAYS)
      matches == Matches(flushed.suggestions, cid, new_base, new_fleet, since)
      creators == Creators(flushed.suggestions, matches)
      open == OpenAssignments(flushed.assignments, cid)
  IN
  /\ pc[w] = "flush"
  /\ req[w].route = "suggest"
  /\ lock = NoWorker
  /\ lock' = w
  /\ IF Cardinality(creators) >= CONSENSUS_THRESHOLD
     THEN /\ \E current \in (IF open = {} THEN {0} ELSE open) :
               tx' = ApplyConsensus(flushed, cid, new_base, new_fleet,
                                    matches, current, now)
          /\ pc' = [pc EXCEPT ![w] = "commit_applied"]
     ELSE /\ tx' = flushed
          /\ pc' = [pc EXCEPT ![w] = "commit_pending"]
  /\ UNCHANGED <<page, now, authed, captains, assignments, suggestions, reviews, req>>

\* mutant of SuggestCommit: the approvals are committed on their own, the
\* captain and the ledger are not
SuggestCommitApprovalsOnly(w) ==
  /\ pc[w] \in {"commit_applied", "commit_pending"}
  /\ req[w].route = "suggest"
  /\ suggestions' = tx.suggestions
  /\ lock' = NoWorker
  /\ tx' = NoTx
  /\ pc' = [pc EXCEPT ![w] = "idle"]
  /\ req' = [req EXCEPT ![w] = NoReq]
  /\ UNCHANGED <<page, now, authed, reviews, captains, assignments>>

\* s.commit(): the session's view becomes the store, the lock is released
SuggestCommit(w) ==
  /\ pc[w] \in {"commit_applied", "commit_pending"}
  /\ req[w].route = "suggest"
  /\ captains' = tx.captains
  /\ assignments' = tx.assignments
  /\ suggestions' = tx.suggestions
  /\ lock' = NoWorker
  /\ tx' = NoTx
  /\ pc' = [pc EXCEPT ![w] = "idle"]
  /\ req' = [req EXCEPT ![w] = NoReq]
  /\ UNCHANGED <<page, now, authed, reviews>>

\* the request dies before its commit (sqlite3.OperationalError "database is
\* locked" after the busy timeout, or any exception): the Session's context
\* manager rolls back and nothing it wrote reaches the store
Fail(w) ==
  /\ \/ pc[w] = "flush" /\ lock # NoWorker
     \/ pc[w] \in {"commit_applied", "commit_pending"}
  /\ lock' = IF lock = w THEN NoWorker ELSE lock
  /\ tx' = IF lock = w THEN NoTx ELSE tx
  /\ pc' = [pc EXCEPT ![w] = "idle"]
  /\ req' = [req EXCEPT ![w] = NoReq]
  /\ UNCHANGED <<page, now, authed, captains, assignments, suggestions, reviews>>

\* ------------------------------------------------------------- review_new
EVAL_KEYS ==
  << "crm_inclusion", "communication", "easy_to_fly", "micromanage",
     "workload_share", "helps_box", "helps_walk",
     "skill_sop", "temperament", "respectfulness", "boundaries",
     "cabin_respect", "would_fly_again" >>
STYLE_KEYS == << "chattiness", "mentorship", "humor_vibe" >>
AllKeys == {EVAL_KEYS[i] : i \in DOMAIN EVAL_KEYS}
             \cup {STYLE_KEYS[i] : i \in DOMAIN STYLE_KEYS}

NoValue == "<none>"                 \* request.form.get(key) is None

\* str.isdigit() and int(), on the form values used below
IsDigit(v) == v \in {"0", "1", "2", "3", "4", "5", "9"}
IntOf(v) ==
  CASE v = "0" -> 0 [] v = "1" -> 1 [] v = "2" -> 2 [] v = "3" -> 3
    [] v = "4" -> 4 [] v = "5" -> 5 [] v = "9" -> 9

\* int(v) if v and v.isdigit() else 3
ParseScore(v) == IF v # NoValue /\ v # "" /\ IsDigit(v) THEN IntOf(v) ELSE 3

\* the rating forms submitted: the best marks (micromanage at its inverse
\* best), and a form with missing, non-numeric and out-of-range fields
BestForm == [k \in AllKeys |-> IF k = "micromanage" THEN "1" ELSE "5"]
OddForm ==
  [k \in AllKeys |->
     CASE k = "crm_inclusion" -> NoValue
       [] k = "communication" -> "abc"
       [] k = "easy_to_fly" -> ""
       [] k = "micromanage" -> "-2"
       [] k = "workload_share" -> "3.5"
       [] k = "helps_box" -> "9"
       [] k = "helps_walk" -> "0"
       [] OTHER -> "4"]
ReviewForms == {BestForm, OddForm}

\* two forms of marks within 1..5 that differ in two categories
LowForm ==
  [k \in AllKeys |->
     CASE k = "micromanage" -> "4"
       [] k \in {"crm_inclusion", "communication"} -> "3"
       [] OTHER -> "2"]
LowFormRaised ==
  [k \in AllKeys |->
     CASE k = "micromanage" -> "4"
       [] k \in {"crm_inclusion", "communication"} -> "4"
       [] OTHER -> "2"]

\* for key in EVAL_KEYS + STYLE_KEYS: payload[key] = ...
Payload(form) == [k \in AllKeys |-> ParseScore(form[k])]

Review(cid, reviewer_hash, payload, t) ==
  [captain_id |-> cid, created_at |-> t, reviewer_hash |-> reviewer_hash,
   scores |-> payload]

\* timedelta(hours=24)
REVIEW_COOLDOWN_HOURS == 24

RecentReviewsAnyReviewer(cid, r_hash) ==
  {i \in DOMAIN reviews :
     /\ reviews[i].captain_id = cid
     /\ reviews[i].created_at >= now - REVIEW_COOLDOWN_HOURS}

\* recent: this reviewer's reviews of this captain in the last 24 hours
RecentReviews(cid, r_hash) ==
  {i \in DOMAIN reviews :
     /\ reviews[i].captain_id = cid
     /\ reviews[i].reviewer_hash = r_hash
     /\ reviews[i].created_at >= now - REVIEW_COOLDOWN_HOURS}

\* what a review_new POST answers before it writes
ReviewOutcome(sess, cid, r_hash) ==
  IF ~sess THEN "login"
  ELSE IF cid \notin DOMAIN captains THEN "notfound"
  ELSE IF RecentReviews(cid, r_hash) # {} THEN "recent"
  ELSE "accepted"

\* the requests past the cooldown guard, each with a row to insert
Reviewing == {w \in Workers : pc[w] = "insert"}

\* review_new, POST, up to the recent check
ReviewBegin(w, sess, cid, cookie, uuid, form) ==
  LET tok == get_or_set_reviewer_token(cookie, uuid)
      r_hash == reviewer_hash_from_token(tok[1])
  IN
  /\ w \in Workers
  /\ w = FreeWorker
  /\ IF ReviewOutcome(sess, cid, r_hash) # "accepted"
     THEN UNCHANGED <<pc, req>>
     ELSE /\ Len(reviews) + Cardinality(Reviewing) < MaxReviews
          /\ pc' = [pc EXCEPT ![w] = "insert"]
          /\ req' = [req EXCEPT ![w] =
                       [route |-> "review", cid |-> cid, new_base |-> "",
                        new_fleet |-> "", hash |-> r_hash,
                        payload |-> Payload(form)]]
  /\ UNCHANGED <<page, now, authed, captains, assignments, suggestions, reviews,
                 lock, tx>>

\* r = Review(...); s.add(r); s.commit(): created_at defaults to utcnow()
ReviewCommit(w) ==
  /\ pc[w] = "insert"
  /\ req[w].route = "review"
  /\ lock = NoWorker
  /\ reviews' = Append(reviews,
                       Review(req[w].cid, req[w].hash, req[w].payload, now))
  /\ pc' = [pc EXCEPT ![w] = "idle"]
  /\ req' = [req EXCEPT ![w] = NoReq]
  /\ UNCHANGED <<page, now, authed, captains, assignments, suggestions, lock, tx>>

\* the request dies before its commit: nothing is stored
ReviewAbort(w) ==
  /\ pc[w] = "insert"
  /\ req[w].route = "review"
  /\ pc' = [pc EXCEPT ![w] = "idle"]
  /\ req' = [req EXCEPT ![w] = NoReq]
  /\ UNCHANGED <<page, now, authed, captains, assignments, suggestions, reviews,
                 lock, tx>>

\* ------------------------------------------------------------ read routes
\* The read routes write nothing: each is the response it renders, as a
\* function of the committed store.  Averages are kept in hundredths.

inv(x) == 6 - x

\* round(num / den) to the nearest integer, ties to the even one
RoundDiv(num, den) ==
  LET f == num \div den
      r == num % den
  IN IF 2 * r < den THEN f
     ELSE IF 2 * r > den THEN f + 1
     ELSE IF f % 2 = 0 THEN f ELSE f + 1

\* round(num / den, 2), in hundredths
Round2(num, den) == RoundDiv(100 * num, den)

\* mutant of ScoreOf: micromanage is not inverted
ScoreOfRaw(r, key) == r.scores[key]

\* getattr(r, key), inverted for micromanage
ScoreOf(r, key) == IF key = "micromanage" THEN inv(r.scores[key])
                   ELSE r.scores[key]

RECURSIVE SumEval(_, _)
SumEval(r, n) == IF n = 0 THEN 0 ELSE ScoreOf(r, EVAL_KEYS[n]) + SumEval(r, n - 1)

\* sum(vals) / len(vals) over the 13 evaluation fields, in thirteenths
overall_from_review(r) == SumEval(r, Len(EVAL_KEYS))

\* select(Review).where(Review.captain_id == c.id)
ReviewsOf(cid) == {i \in DOMAIN reviews : reviews[i].captain_id = cid}

RECURSIVE SumKey(_, _)
SumKey(S, key) ==
  IF S = {} THEN 0
  ELSE LET i == CHOOSE j \in S : TRUE
       IN ScoreOf(reviews[i], key) + SumKey(S \ {i}, key)

RECURSIVE SumOverall(_)
SumOverall(S) ==
  IF S = {} THEN 0
  ELSE LET i == CHOOSE j \in S : TRUE
       IN overall_from_review(reviews[i]) + SumOverall(S \ {i})

RECURSIVE SumAvgs(_, _)
SumAvgs(avgs, n) == IF n = 0 THEN 0 ELSE avgs[EVAL_KEYS[n]] + SumAvgs(avgs, n - 1)

\* the per-key averages of a captain with enough reviews
CatAvgs(cid) ==
  [key \in AllKeys |->
     Round2(SumKey(ReviewsOf(cid), key), Cardinality(ReviewsOf(cid)))]

NotFound == [status |-> 404]

CanShowOneShort(count) == count >= MIN_DISPLAY_REVIEWS - 1

\* if count >= MIN_DISPLAY_REVIEWS / if count < min_reviews: continue
CanShow(count) == count >= MIN_DISPLAY_REVIEWS

\* GET /captains/<cid>: no session check
captain_page(cid) ==
  IF cid \notin DOMAIN captains THEN NotFound
  ELSE LET count == Cardinality(ReviewsOf(cid))
           show == CanShow(count)
           cat_avgs == IF show THEN CatAvgs(cid) ELSE <<>>
       IN [status |-> 200, captain |-> cid, count |-> count,
           cat_avgs |-> cat_avgs,
           overall |-> IF show
                       THEN RoundDiv(SumAvgs(cat_avgs, Len(EVAL_KEYS)),
                                     Len(EVAL_KEYS))
                       ELSE NULL,
           pending_count |->
             Cardinality({i \in DOMAIN suggestions :
                            /\ suggestions[i].captain_id = cid
                            /\ suggestions[i].status = "pending"})]

\* GET /: the query runs on s before the with block binds it, so the
\* handler raises UnboundLocalError on every request and renders nothing
index(q) == [status |-> 500, data |-> <<>>]

top_limit == 10

\* the (x[1], x[2]) sort key, compared for reverse=True
KeyGreater(a, b) == a.avg > b.avg \/ (a.avg = b.avg /\ a.count > b.count)

RECURSIVE InsertRow(_, _)
InsertRow(rows, x) ==
  IF rows = <<>> THEN <<x>>
  ELSE IF KeyGreater(x, Head(rows)) THEN <<x>> \o rows
  ELSE <<Head(rows)>> \o InsertRow(Tail(rows), x)

\* rows.sort(key=..., reverse=True): stable
RECURSIVE SortRows(_)
SortRows(rows) ==
  IF rows = <<>> THEN <<>>
  ELSE InsertRow(SortRows(SubSeq(rows, 1, Len(rows) - 1)), rows[Len(rows)])

\* the loop over the first n captains
RECURSIVE TopRows(_, _, _)
TopRows(base, fleet, n) ==
  IF n = 0 THEN <<>>
  ELSE LET c == captains[n]
           count == Cardinality(ReviewsOf(n))
           prev == TopRows(base, fleet, n - 1)
       IN IF (base # "" /\ c.base # base) \/ (fleet # "" /\ c.fleet # fleet)
             \/ ~CanShow(count)
          THEN prev
          ELSE Append(prev,
                      [captain |-> n,
                       avg |-> Round2(SumOverall(ReviewsOf(n)),
                                      Len(EVAL_KEYS) * count),
                       count |-> count])

\* the search strings of GET /
IndexQueries == {"", "smith"}

\* the /top query strings
TopQueries == {<<"", "">>, <<"ord", "">>, <<"", "787 ">>, <<"iah", "787 ">>}

\* GET /top?base=..&fleet=..: no session check
top_rated(rawb, rawf) ==
  LET sorted == SortRows(TopRows(StripUpper(rawb), StripUpper(rawf),
                                 Len(captains)))
  IN [status |-> 200,
      rows |-> SubSeq(sorted, 1, IF Len(sorted) < top_limit THEN Len(sorted)
                                 ELSE top_limit)]

\* the read routes as requests: the response goes to the client
GetIndex(sess, q) ==
  /\ page' = [route |-> "index", sess |-> sess, arg |-> q,
              response |-> index(q)]
  /\ UNCHANGED <<now, authed, captains, assignments, suggestions, reviews,
                 lock, tx, pc, req>>

GetCaptainPage(sess, cid) ==
  /\ page' = [route |-> "captain_page", sess |-> sess, arg |-> cid,
              response |-> captain_page(cid)]
  /\ UNCHANGED <<now, authed, captains, assignments, suggestions, reviews,
                 lock, tx, pc, req>>

GetTop(sess, rawb, rawf) ==
  /\ page' = [route |-> "top_rated", sess |-> sess, arg |-> <<rawb, rawf>>,
              response |-> top_rated(rawb, rawf)]
  /\ UNCHANGED <<now, authed, captains, assignments, suggestions, reviews,
                 lock, tx, pc, req>>

\* ------------------------------------------------- stores the reads run on
\* the review rows a store may hold: a reviewed captain and a submitted form
ScoreForms == <<BestForm, OddForm, LowForm, LowFormRaised>>
ReviewedCaptains == {1, 2}
RowKinds == 1..(Cardinality(ReviewedCaptains) * Len(ScoreForms))
KindCaptain(k) == 1 + ((k - 1) \div Len(ScoreForms))
KindForm(k) == ScoreForms[1 + ((k - 1) % Len(ScoreForms))]

\* reviews tables of up to MaxReviews rows, each row by a reviewer of its
\* own; the read routes do not depend on the order of the rows, so the rows
\* are taken in one order
ReviewTables ==
  UNION { { [i \in 1..n |->
               Review(KindCaptain(ks[i]), reviewer_hash_from_token(i),
                      Payload(KindForm(ks[i])), 0)] :
            ks \in {f \in [1..n -> RowKinds] :
                      \A i \in 1..n : i > 1 => f[i - 1] <= f[i]} } :
          n \in 0..MaxReviews }

\* the store after construction and any of these review submissions
InitRead ==
  /\ now = 0
  /\ authed = FALSE
  /\ captains = bootstrap_captains
  /\ assignments = bootstrap_assignments
  /\ suggestions = <<>>
  /\ reviews \in ReviewTables
  /\ lock = NoWorker
  /\ tx = NoTx
  /\ pc = [w \in Workers |-> "idle"]
  /\ req = [w \in Workers |-> NoReq]
  /\ page = NoPage

\* ------------------------------------------------------------------- Next
Next ==
  \/ Tick
  \/ \E code \in InviteCodes : login(code)
  \/ \E sess \in SessionFlags : \E form \in FormsFor(sess, CaptainForms) :
       captain_new(sess, form[1], form[2], form[3])
  \/ \E sess \in SessionFlags :
       \E cid \in FormsFor(sess, CidInputs), cookie \in FormsFor(sess, Cookies),
          form \in FormsFor(sess, SuggestForms) :
         \E uuid \in Uuids(cookie) :
           SuggestBegin(FreeWorker, sess, cid, cookie, uuid, form[1], form[2])
  \/ \E w \in Workers : SuggestWrite(w)
  \/ \E w \in Workers : SuggestCommit(w)
  \/ \E w \in Workers : Fail(w)

Spec == Init /\ [][Next]_vars

\* review submission, apart from the suggestion engine (the two share no
\* table but captains, which neither review_new nor a read route writes)
NextReview ==
  \/ Tick
  \/ \E code \in InviteCodes : login(code)
  \/ \E sess \in SessionFlags :
       \E cid \in FormsFor(sess, CidInputs), cookie \in FormsFor(sess, Cookies),
          form \in FormsFor(sess, ReviewForms) :
         \E uuid \in Uuids(cookie) :
           ReviewBegin(FreeWorker, sess, cid, cookie, uuid, form)
  \/ \E w \in Workers : ReviewCommit(w)
  \/ \E w \in Workers : ReviewAbort(w)

SpecReview == Init /\ [][NextReview]_vars

\* the read routes, on the stores review submission leaves
NextRead ==
  \/ \E code \in InviteCodes : login(code)
  \/ \E sess \in SessionFlags, q \in IndexQueries : GetIndex(sess, q)
  \/ \E sess \in SessionFlags, cid \in CidInputs \cup ReviewedCaptains :
       GetCaptainPage(sess, cid)
  \/ \E sess \in SessionFlags, q \in TopQueries : GetTop(sess, q[1], q[2])

SpecRead == InitRead /\ [][NextRead]_vars

\* ======================================================================
\* Claims about the suggestion consensus engine and the assignment ledger
\* ======================================================================

\* the claims' own vocabulary, stated on the committed store
PendingOf(K, C) ==
  {i \in DOMAIN suggestions :
     /\ suggestions[i].captain_id = C
     /\ suggestions[i].creator_hash = K
     /\ suggestions[i].status = "pending"}

\* the pending suggestions for C proposing (B, F) made by a creator other
\* than K
PendingByOthers(K, C, B, F) ==
  {i \in DOMAIN suggestions :
     /\ suggestions[i].captain_id = C
     /\ suggestions[i].new_base = B
     /\ suggestions[i].new_fleet = F
     /\ suggestions[i].status = "pending"
     /\ suggestions[i].creator_hash # K}

\* created within the last 14 days
InWindow(i) == now - suggestions[i].created_at <= Days(14)

OpenRows(C) ==
  {i \in DOMAIN assignments :
     assignments[i].captain_id = C /\ assignments[i].end_date = NULL}

\* worker w's request is committed by this step: its row joins the store
Commits(w) ==
  /\ pc[w] \in {"commit_applied", "commit_pending"}
  /\ pc'[w] = "idle"
  /\ Len(suggestions') = Len(suggestions) + 1

\* C1: a suggestion for (B, F) by a creator K with nothing pending for the
\* captain, corroborated by another creator's pending suggestion for the same
\* (B, F) made within the last 14 days, is applied when it is processed: all
\* the pending in-window matches and the new suggestion are approved with a
\* resolution timestamp, and the captain's base and fleet are (B, F).
C1_CorroboratedIsApplied ==
  [][\A w \in Workers :
       LET K == req[w].hash
           C == req[w].cid
           B == req[w].new_base
           F == req[w].new_fleet
           corroborating == {i \in PendingByOthers(K, C, B, F) : InWindow(i)}
           mine == {i \in DOMAIN suggestions :
                      /\ suggestions[i].captain_id = C
                      /\ suggestions[i].new_base = B
                      /\ suggestions[i].new_fleet = F
                      /\ suggestions[i].status = "pending"
                      /\ InWindow(i)}
       IN (Commits(w) /\ PendingOf(K, C) = {} /\ corroborating # {})
          => /\ \A i \in mine \cup {Len(suggestions')} :
                  /\ suggestions'[i].status = "approved"
                  /\ suggestions'[i].resolved_at # NULL
             /\ suggestions'[Len(suggestions')].creator_hash = K
             /\ captains'[C].base = B
             /\ captains'[C].fleet = F
    ]_vars

\* C1's case: two creators' suggestions for the same (base, fleet), both
\* approved at once, and the captain moved there
C1_Witness ==
  \E i, j \in DOMAIN suggestions :
    /\ i < j
    /\ suggestions[i].captain_id = suggestions[j].captain_id
    /\ suggestions[i].creator_hash # suggestions[j].creator_hash
    /\ suggestions[i].new_base = suggestions[j].new_base
    /\ suggestions[i].new_fleet = suggestions[j].new_fleet
    /\ suggestions[i].status = "approved"
    /\ suggestions[j].status = "approved"
    /\ suggestions[i].resolved_at # NULL
    /\ suggestions[i].resolved_at = suggestions[j].resolved_at
    /\ captains[suggestions[j].captain_id].base = suggestions[j].new_base
    /\ captains[suggestions[j].captain_id].fleet = suggestions[j].new_fleet

ConsensusEvent(i) ==
  suggestions[i].status = "pending" /\ suggestions'[i].status = "approved"

\* C3: after a consensus event for captain C with (B, F), exactly one
\* assignment of C is open, it carries (B, F), and the assignment open before
\* the event is closed
C3_OneOpenAfterConsensus ==
  [][\A s \in DOMAIN suggestions :
       ConsensusEvent(s)
       => LET C == suggestions[s].captain_id
              B == suggestions[s].new_base
              F == suggestions[s].new_fleet
              open == {i \in DOMAIN assignments' :
                         /\ assignments'[i].captain_id = C
                         /\ assignments'[i].end_date = NULL}
          IN /\ Cardinality(open) = 1
             /\ \A i \in open :
                  assignments'[i].base = B /\ assignments'[i].fleet = F
             /\ OpenRows(C) # {}
             /\ \A i \in OpenRows(C) : assignments'[i].end_date # NULL
    ]_vars

\* C3's case: a captain's seeded assignment closed, and the open one elsewhere
C3_Witness ==
  \E i, j \in DOMAIN assignments :
    /\ assignments[i].captain_id = assignments[j].captain_id
    /\ assignments[i].end_date # NULL
    /\ assignments[j].end_date = NULL
    /\ assignments[j].start_date = assignments[i].end_date
    /\ assignments[j].base # assignments[i].base

\* C4: a suggest_update POST by a creator who already has a pending
\* suggestion for the captain (whatever it proposes, whatever its age) changes
\* nothing: no step of the system is the processing of such a request, even
\* when the proposal matches another creator's pending in-window suggestion
C4_DuplicatePendingRejected ==
  [][vars' # vars =>
       \A cid \in CidInputs, cookie \in Tokens, form \in SuggestForms :
         ~ /\ PendingOf(reviewer_hash_from_token(cookie), cid) # {}
           /\ SuggestBegin(FreeWorker, TRUE, cid, cookie, NoCookie,
                           form[1], form[2])
    ]_vars

\* C4's case: creator K holds a pending suggestion older than the window,
\* another creator holds a pending in-window suggestion for another (base,
\* fleet) of the same captain, no request is in progress, and a POST by K
\* proposing the other creator's (base, fleet) is answered "duplicate"
C4_Witness ==
  /\ authed
  /\ \A w \in Workers : pc[w] = "idle"
  /\ \E i, j \in DOMAIN suggestions :
       /\ suggestions[i].captain_id = suggestions[j].captain_id
       /\ suggestions[i].creator_hash # suggestions[j].creator_hash
       /\ suggestions[i].status = "pending"
       /\ suggestions[j].status = "pending"
       /\ ~InWindow(i)
       /\ InWindow(j)
       /\ suggestions[i].new_base # suggestions[j].new_base
       /\ SuggestOutcome(TRUE, suggestions[i].captain_id,
                         suggestions[i].creator_hash,
                         suggestions[j].new_base, suggestions[j].new_fleet)
            = "duplicate"

\* C5: no creator has two pending suggestions for one captain
C5_OnePendingPerCreator ==
  \A i, j \in DOMAIN suggestions :
    (/\ i # j
     /\ suggestions[i].status = "pending"
     /\ suggestions[j].status = "pending"
     /\ suggestions[i].captain_id = suggestions[j].captain_id)
    => suggestions[i].creator_hash # suggestions[j].creator_hash

\* C6: a suggestion for (B, F) all of whose pending matches by other creators
\* are more than 14 days old is recorded as pending and nothing else happens:
\* no suggestion is approved, the captain and the ledger are unchanged
C6_StaleDoesNotCorroborate ==
  [][\A w \in Workers :
       LET K == req[w].hash
           C == req[w].cid
           B == req[w].new_base
           F == req[w].new_fleet
       IN (/\ Commits(w)
           /\ \A i \in PendingByOthers(K, C, B, F) : ~InWindow(i))
          => /\ suggestions' =
                  Append(suggestions, [captain_id |-> C, new_base |-> B,
                                       new_fleet |-> F, status |-> "pending",
                                       created_at |-> now, resolved_at |-> NULL,
                                       creator_hash |-> K])
             /\ captains' = captains
             /\ assignments' = assignments
    ]_vars

\* C6's case: two creators' pending suggestions for the same (base, fleet)
\* of one captain, made more than 14 days apart
C6_Witness ==
  \E i, j \in DOMAIN suggestions :
    /\ i < j
    /\ suggestions[i].captain_id = suggestions[j].captain_id
    /\ suggestions[i].new_base = suggestions[j].new_base
    /\ suggestions[i].new_fleet = suggestions[j].new_fleet
    /\ suggestions[i].creator_hash # suggestions[j].creator_hash
    /\ suggestions[i].status = "pending"
    /\ suggestions[j].status = "pending"
    /\ suggestions[j].created_at - suggestions[i].created_at > Days(14)

\* the approved suggestions of captain C, and the last of them
ApprovedOf(C) ==
  {i \in DOMAIN suggestions :
     suggestions[i].captain_id = C /\ suggestions[i].status = "approved"}

LastApproved(C) ==
  CHOOSE i \in ApprovedOf(C) : \A j \in ApprovedOf(C) : j <= i

AssignmentsOf(C) == {i \in DOMAIN assignments : assignments[i].captain_id = C}

\* C7: in every state of the store a consensus is applied wholly or not at
\* all.  A captain with no approved suggestion has its one initial
\* assignment, open, at the captain's base and fleet.  A captain with approved
\* suggestions carries the (base, fleet) and the resolution time of the last
\* one in its record, has exactly one open assignment, for that (base, fleet)
\* and begun at that time, and every other assignment is closed.
C7_ConsensusAtomic ==
  \A C \in DOMAIN captains :
    IF ApprovedOf(C) = {}
    THEN /\ Cardinality(AssignmentsOf(C)) = 1
         /\ \A i \in AssignmentsOf(C) :
              /\ assignments[i].end_date = NULL
              /\ assignments[i].base = captains[C].base
              /\ assignments[i].fleet = captains[C].fleet
    ELSE LET m == suggestions[LastApproved(C)] IN
         /\ m.resolved_at # NULL
         /\ captains[C].base = m.new_base
         /\ captains[C].fleet = m.new_fleet
         /\ captains[C].updated_at = m.resolved_at
         /\ Cardinality(OpenRows(C)) = 1
         /\ Cardinality(AssignmentsOf(C)) > 1
         /\ \A i \in OpenRows(C) :
              /\ assignments[i].base = m.new_base
              /\ assignments[i].fleet = m.new_fleet
              /\ assignments[i].start_date = m.resolved_at

\* C7's case: a consensus applied in a session's view and not yet committed,
\* none of it in the store
C7_Witness ==
  \E w \in Workers :
    /\ pc[w] = "commit_applied"
    /\ lock = w
    /\ \E i \in DOMAIN tx.suggestions : tx.suggestions[i].status = "approved"
    /\ tx.captains[req[w].cid].base # captains[req[w].cid].base
    /\ Len(tx.assignments) = Len(assignments) + 1
    /\ ApprovedOf(req[w].cid) = {}

\* ------------------------------------------------------- review claims
\* C8 -- every one of the 16 sub-scores of every stored Review lies
\* between 1 and 5, whatever values the form carried.
C8_ScoresInRange ==
  \A i \in DOMAIN reviews : \A k \in AllKeys : reviews[i].scores[k] \in 1..5

\* identity K has a stored review of captain C no older than the cooldown
HasRecent(K, C) ==
  \E i \in DOMAIN reviews :
    /\ reviews[i].captain_id = C
    /\ reviews[i].reviewer_hash = K
    /\ now - reviews[i].created_at <= REVIEW_COOLDOWN_HOURS

\* C9 -- a review_new POST for captain C by an identity with a stored review
\* of C inside the 24-hour cooldown is rejected and stores nothing; with no
\* such review (whatever other identities or other captains have) it is
\* accepted, and stores exactly one review, of C by that identity.
C9_CooldownPerIdentityAndCaptain ==
  [][ /\ \A C \in DOMAIN captains : \A t \in Tokens :
           LET K == reviewer_hash_from_token(t)
           IN ReviewOutcome(TRUE, C, K) =
                IF HasRecent(K, C) THEN "recent" ELSE "accepted"
      /\ \A w \in Workers :
           pc[w] = "idle" /\ pc'[w] = "insert"
             => /\ ~HasRecent(req'[w].hash, req'[w].cid)
                /\ reviews' = reviews
      /\ pc' = pc => reviews' = reviews
      /\ \A w \in Workers :
           pc[w] = "insert" /\ pc'[w] = "idle" /\ reviews' # reviews
             => /\ Len(reviews') = Len(reviews) + 1
                /\ SubSeq(reviews', 1, Len(reviews)) = reviews
                /\ reviews'[Len(reviews')].captain_id = req[w].cid
                /\ reviews'[Len(reviews')].reviewer_hash = req[w].hash
                /\ reviews'[Len(reviews')].created_at = now ]_vars

\* one identity reviewed one captain twice, more than a cooldown apart, and
\* another identity reviewed the same captain inside the first one's cooldown
C9_Witness ==
  \E i, j, k \in DOMAIN reviews :
    /\ i < j
    /\ reviews[i].captain_id = reviews[j].captain_id
    /\ reviews[i].reviewer_hash = reviews[j].reviewer_hash
    /\ reviews[j].created_at - reviews[i].created_at > REVIEW_COOLDOWN_HOURS
    /\ reviews[k].captain_id = reviews[i].captain_id
    /\ reviews[k].reviewer_hash # reviews[i].reviewer_hash
    /\ reviews[k].created_at = reviews[i].created_at
    /\ HasRecent(reviews[j].reviewer_hash, reviews[j].captain_id)

ReviewCount(C) ==
  Cardinality({i \in DOMAIN reviews : reviews[i].captain_id = C})

\* C10 -- for a captain with fewer than MIN_DISPLAY_REVIEWS reviews no read
\* route gives an average: the captain page has no category averages and no
\* overall, the index lists no average for the captain, /top omits the
\* captain.
C10_NoAveragesBelowThreshold ==
  \A C \in DOMAIN captains :
    ReviewCount(C) < MIN_DISPLAY_REVIEWS
      => /\ captain_page(C).cat_avgs = <<>>
         /\ captain_page(C).overall = NULL
         /\ \A q \in IndexQueries :
              \A n \in DOMAIN index(q).data : index(q).data[n].captain # C
         /\ \A q \in TopQueries :
              \A n \in DOMAIN top_rated(q[1], q[2]).rows :
                top_rated(q[1], q[2]).rows[n].captain # C

\* a captain one review short of the threshold, whose page counts the
\* reviews and shows no average
C10_Witness ==
  \E C \in DOMAIN captains :
    /\ ReviewCount(C) = MIN_DISPLAY_REVIEWS - 1
    /\ captain_page(C).count = MIN_DISPLAY_REVIEWS - 1
    /\ captain_page(C).overall = NULL
    /\ top_rated("ord", "").rows = <<>>

\* ---------------------------------------------- ageing, ledger, interleaving
\* pending, and older than the 14-day consensus window
AgedOut(i) ==
  /\ suggestions[i].status = "pending"
  /\ now - suggestions[i].created_at > Days(SUGGESTION_WINDOW_DAYS)

\* C13 -- a pending suggestion older than the 14-day window is never changed
\* by a later operation: no step approves, rejects, expires or removes it, it
\* is pending ever after, and its creator cannot submit for that captain.
C13_AgedOutStaysPending ==
  [][\A i \in DOMAIN suggestions :
       AgedOut(i)
         => /\ i \in DOMAIN suggestions'
            /\ suggestions'[i] = suggestions[i]
            /\ \A form \in SuggestForms :
                 SuggestOutcome(TRUE, suggestions[i].captain_id,
                                suggestions[i].creator_hash,
                                StripUpper(form[1]), StripUpper(form[2]))
                   # "accepted"
    ]_vars

\* an aged-out pending suggestion, and a later suggestion by another creator
\* for the same captain and the same (base, fleet) stored after it aged out
C13_Witness ==
  /\ \A w \in Workers : pc[w] = "idle"
  /\ \E i, j \in DOMAIN suggestions :
       /\ AgedOut(i)
       /\ suggestions[j].captain_id = suggestions[i].captain_id
       /\ suggestions[j].new_base = suggestions[i].new_base
       /\ suggestions[j].new_fleet = suggestions[i].new_fleet
       /\ suggestions[j].creator_hash # suggestions[i].creator_hash
       /\ suggestions[j].created_at = now

\* some suggestion is approved by this step
ConsensusStep ==
  \E i \in DOMAIN suggestions' :
    /\ suggestions'[i].status = "approved"
    /\ i \in DOMAIN suggestions => suggestions[i].status = "pending"

\* C14 -- the assignment ledger is append-only: no record is removed, a
\* record's captain, base, fleet and start_date never change, an end_date
\* once set stays, and a record is added only with a new captain (one open
\* record, for that captain) or by a consensus event (one record); every
\* other step leaves the ledger as it was.
C14_LedgerAppendOnly ==
  [][/\ Len(assignments') >= Len(assignments)
     /\ \A i \in DOMAIN assignments :
          /\ assignments'[i].captain_id = assignments[i].captain_id
          /\ assignments'[i].base = assignments[i].base
          /\ assignments'[i].fleet = assignments[i].fleet
          /\ assignments'[i].start_date = assignments[i].start_date
          /\ assignments[i].end_date # NULL
               => assignments'[i].end_date = assignments[i].end_date
     /\ assignments' # assignments
          => \/ /\ Len(captains') = Len(captains) + 1
                /\ assignments' =
                     Append(assignments,
                            [captain_id |-> Len(captains'),
                             base |-> captains'[Len(captains')].base,
                             fleet |-> captains'[Len(captains')].fleet,
                             start_date |-> now, end_date |-> NULL])
             \/ /\ ConsensusStep
                /\ Len(assignments') = Len(assignments) + 1
    ]_vars

\* a captain added through the form with its one open record, and a captain
\* whose ledger holds a closed record followed by an open one
C14_Witness ==
  /\ Len(captains) > Len(bootstrap_captains)
  /\ Cardinality({k \in DOMAIN assignments :
                    assignments[k].captain_id = Len(captains)}) = 1
  /\ \E i, j \in DOMAIN assignments :
       /\ i < j
       /\ assignments[j].captain_id = assignments[i].captain_id
       /\ assignments[i].end_date # NULL
       /\ assignments[j].end_date = NULL

ScoringCategories ==
  {"crm_inclusion", "communication", "easy_to_fly", "micromanage",
   "workload_share", "helps_box", "helps_walk", "skill_sop", "temperament",
   "respectfulness", "boundaries", "cabin_respect", "would_fly_again"}

RowsOf(C) == {i \in DOMAIN reviews : reviews[i].captain_id = C}

\* the sum over the reviews S of category k, micromanage counted as 6 - v
RECURSIVE CategorySum(_, _)
CategorySum(S, k) ==
  IF S = {} THEN 0
  ELSE LET i == CHOOSE j \in S : TRUE
           v == reviews[i].scores[k]
       IN (IF k = "micromanage" THEN 6 - v ELSE v) + CategorySum(S \ {i}, k)

\* the category's average as the page shows it, in hundredths
CategoryAverage(C, k) == Round2(CategorySum(RowsOf(C), k), ReviewCount(C))

RECURSIVE SumOfAverages(_, _)
SumOfAverages(C, K) ==
  IF K = {} THEN 0
  ELSE LET k == CHOOSE x \in K : TRUE
       IN CategoryAverage(C, k) + SumOfAverages(C, K \ {k})

\* C11 -- for a captain with at least MIN_DISPLAY_REVIEWS reviews the
\* overall score of captain_page is the mean (shown to 2 decimals) of the 13
\* scoring-category averages, the micromanage average taken over 6 - v; the
\* three style categories do not enter it.
C11_OverallIsMeanOf13 ==
  (/\ page.route = "captain_page"
   /\ page.arg \in DOMAIN captains
   /\ ReviewCount(page.arg) >= MIN_DISPLAY_REVIEWS)
    => /\ page.response.overall =
            RoundDiv(SumOfAverages(page.arg, ScoringCategories), 13)
       /\ \A k \in ScoringCategories :
            page.response.cat_avgs[k] = CategoryAverage(page.arg, k)

\* a page rendered for a captain with enough reviews whose style marks
\* differ from the scoring marks and whose micromanage marks are not all 3
C11_Witness ==
  /\ page.route = "captain_page"
  /\ page.arg \in DOMAIN captains
  /\ ReviewCount(page.arg) >= MIN_DISPLAY_REVIEWS
  /\ page.response.overall # NULL
  /\ \E i \in RowsOf(page.arg) :
       /\ reviews[i].scores["micromanage"] # 3
       /\ reviews[i].scores["chattiness"] # reviews[i].scores["crm_inclusion"]

\* C12 -- GET /captains/{id} and GET /top give their content only to a
\* request whose session has authed set (any other request is sent to the
\* login page), no step changes the stored tables unless a session has the
\* flag, and the flag is set only by a login POST with the invite code.
C12_SessionRequired ==
  [][/\ (page' # page /\ page'.route \in {"captain_page", "top_rated"}
          /\ ~page'.sess)
          => page'.response.status = 302
     /\ dbvars' # dbvars => authed
     /\ (authed' /\ ~authed) => login(INVITE_CODE)
    ]_vars

\* the captains GET / is to list for the search string q
Listed(q) ==
  {c \in DOMAIN captains : q = "" \/ (q = "smith" /\ captains[c].name = "John Smith")}

\* C15 -- GET / always completes without error, listing every captain that
\* matches q (all of them when q is empty) with its review count.
C15_IndexCompletes ==
  page.route = "index"
    => /\ page.response.status = 200
       /\ {page.response.data[n].captain : n \in DOMAIN page.response.data}
            = Listed(page.arg)
       /\ \A n \in DOMAIN page.response.data :
            page.response.data[n].count
              = ReviewCount(page.response.data[n].captain)

\* C17 -- for a captain with at least MIN_DISPLAY_REVIEWS reviews the
\* overall score on the captain's page equals the score /top ranks the
\* captain by.
C17_PageScoreEqualsTopScore ==
  page.route = "top_rated"
    => \A n \in DOMAIN page.response.rows :
         LET C == page.response.rows[n].captain
         IN ReviewCount(C) >= MIN_DISPLAY_REVIEWS
              => page.response.rows[n].avg = captain_page(C).overall

====
